---------------------------- MODULE Spec2Model ----------------------------
(***************************************************************************)
(* A model of the interaction and rule-resolution core of the slime game   *)
(* in src/src/main.rs (a Bevy 0.8 application).                            *)
(*                                                                         *)
(* One frame of the application is one run of the Update stage.  The State *)
(* driver (add_state, main.rs:40) runs the stage's system sets in passes:  *)
(* its run criterion state_cleaner is evaluated, the system sets whose     *)
(* criteria say yes run once in an order the scheduler is free to choose,  *)
(* their command buffers are applied, and the criteria are evaluated       *)
(* again, until state_cleaner says no.  A state change requested with      *)
(* State::set therefore runs the exit systems, the enter systems and the   *)
(* first update of the new state within the frame that requested it.       *)
(*                                                                         *)
(* Rendering, text, animation and the physics integration are not          *)
(* modelled.  Positions are abstracted to the set `near` of entities whose *)
(* activation radius contains the pointer position held in MousePosition,  *)
(* to the set `snapped` of entities that drag_update has put at that       *)
(* position, and to the flag `beyond` of a spider that has crossed         *)
(* GARDEN_X.                                                               *)
(*                                                                         *)
(* The specifications share the actions.  Spec is the application from its *)
(* start.  SpecLifecycle, SpecGame, SpecTracker and SpecPointer are the    *)
(* application from its start in a narrower environment (the variable      *)
(* env): alike spiders and a short reach of the pointer for the Game State *)
(* Machine and for a whole game, no long frame (hence no spider) for the   *)
(* Interaction Tracker.  SpecFair is the application under the fairness of *)
(* its scheduler.  SpecCombine, SpecUnmatched, SpecWave and SpecSpawner    *)
(* run one component from the middle of a frame: the Combination Resolver  *)
(* on every pair of entities and on the requests it does not recognize,    *)
(* the Wave Director at every point of its period, the Spawn Director on   *)
(* every request.                                                          *)
(***************************************************************************)
EXTENDS Integers, Sequences, FiniteSets, TLC

(***************************************************************************)
(* Program constants.                                                      *)
(***************************************************************************)
SLIME_SIZE_MIN == 1
SLIME_SIZE_MAX == 5
\* SlimeColor::ALL, in the order of the array.
ALL == <<"Red", "Green", "Blue", "Cyan", "Purple", "Yellow", "Black", "White">>
SlimeColor == {ALL[i] : i \in 1..Len(ALL)}
\* for _ in 0..2 in spawn_initial_slimes
INITIAL_ROUNDS == 2
\* rng.gen_range(1..5) in spider_spawn_timer: levels 1..SPIDER_LEVEL_END-1
SPIDER_LEVEL_END == 5
SPIDER_SPEED == 60
\* Duration::from_secs_f32(5.) of the repeating SpiderSpawnTimer
TIMER_PERIOD == 5

(***************************************************************************)
(* Bounds of the model.                                                    *)
(***************************************************************************)
\* frames explored from the start of the application
MaxFrames == 3
\* time.delta() of a frame is 1 time unit, or MaxDelta units (a long frame)
MaxDelta == 5
\* the pointer comes within the activation radius of at most MaxNear
\* entities at once, ...
MaxNear == 1
\* ... chosen among the Reach newest living slimes and Reach newest spiders
Reach == 2
\* the same for the specifications that explore one component
LifecycleFrames == 2
TrackerFrames == 2
TrackerReach == 2
TrackerNear == 2
\* a longer run of the Interaction Tracker
PointerFrames == 3
\* frames of a whole game with spiders
GameFrames == 3
\* frames of the games that run under fair scheduling
FairFrames == 3
\* spawn requests handed to the Spawn Director in one batch
SpawnerBatch == 2
\* combine requests handed to the Combination Resolver in one batch
UnmatchedBatch == 2
\* rng.gen_range in spider_spawn_timer draws one of MaxDraw values of its
\* range
MaxDraw == 1

VARIABLES
    phase,          \* State<AppState>: the current state (top of the stack)
    transition,     \* State.transition: "PreStartup", "Startup", "None",
                    \*   "Exiting" or "Entering"
    target,         \* the state being entered by the transition in progress
    scheduled,      \* State.scheduled: "None" or the state asked for by set()
    prep_exit,      \* Local<bool> of state_cleaner
    end_next_loop,  \* State.end_next_loop
    pc,             \* "idle" between frames, "criteria" when the run
                    \*   criteria are to be evaluated, "systems" in a pass
    first_pass,     \* the pass is the first of the frame (systems without
                    \*   run criteria run in it)
    ran,            \* the systems of the pass that have run
    frame,          \* number of frames started
    delta,          \* Time: time.delta() of the frame, in time units
    pressed, just_pressed, just_released,   \* Input<MouseButton>, Left
    press_edge,     \* history: the frame's input had a press edge
    mouse,          \* MousePosition: "absent" (None) or "present" (Some)
    near,           \* entities whose activation radius contains the pointer
    slimes,         \* living slimes: entity |-> [color, size]
    spiders,        \* living spiders: entity |-> [level, weakness, speed, beyond]
    snapped,        \* history: entities whose Transform x and y drag_update
                    \*   has set to the pointer's in the pass
    drag,           \* entities with DragActive(true)
    hover,          \* entities with HoverActive(true)
    next_entity,    \* next entity id to reserve
    despawns,       \* Commands: entities queued for despawn_recursive
    spawns,         \* Commands: entities queued for spawning
    inserts,        \* Commands: resources queued for insert_resource
    combine_events, \* Events<CombineEvent>, unread
    slime_events,   \* Events<SpawnSlimeEvent>, unread
    spider_events,  \* Events<SpawnSpiderEvent>, unread
    spiders_killed, \* ScoreResource.spiders_killed
    timer,          \* SpiderSpawnTimer: elapsed time units
    panic,          \* "none", or the system whose unwrap/expect failed
    env             \* the environment explored: [frames, reach, near, long, rng]

vars == <<phase, transition, target, scheduled, prep_exit, end_next_loop, pc,
          first_pass, ran, frame, delta, pressed, just_pressed, just_released,
          press_edge, mouse, near, slimes, spiders, snapped, drag, hover,
          next_entity,
          despawns, spawns, inserts, combine_events, slime_events,
          spider_events, spiders_killed, timer, panic, env>>

input_vars == <<pressed, just_pressed, just_released, press_edge>>
world_vars == <<slimes, spiders, snapped, next_entity>>
flag_vars == <<drag, hover>>
command_vars == <<despawns, spawns, inserts>>
event_vars == <<combine_events, slime_events, spider_events>>
resource_vars == <<spiders_killed, timer>>

(***************************************************************************)
(* Helpers.                                                                *)
(***************************************************************************)
Max(a, b) == IF a >= b THEN a ELSE b
Min(a, b) == IF a <= b THEN a ELSE b
\* u32::clamp
clamp(x, lo, hi) == Max(lo, Min(x, hi))

\* the n greatest elements of a set of numbers
RECURSIVE Newest(_, _)
Newest(S, n) ==
    IF n = 0 \/ S = {} THEN {}
    ELSE LET m == CHOOSE x \in S : \A y \in S : y <= x
         IN {m} \cup Newest(S \ {m}, n - 1)

Interactable == DOMAIN slimes \cup DOMAIN spiders

(***************************************************************************)
(* The state after App::new()...add_state(AppState::PreGame) (main.rs:28). *)
(***************************************************************************)
Startup ==
    /\ phase = "PreGame"
    /\ transition = "PreStartup"
    /\ target = "PreGame"
    /\ scheduled = "None"
    /\ prep_exit = FALSE
    /\ end_next_loop = FALSE
    /\ pc = "idle"
    /\ first_pass = FALSE
    /\ ran = {}
    /\ frame = 0
    /\ delta = 1
    /\ pressed = FALSE
    /\ just_pressed = FALSE
    /\ just_released = FALSE
    /\ press_edge = FALSE
    /\ mouse = "absent"
    /\ near = {}
    /\ slimes = <<>>
    /\ spiders = <<>>
    /\ snapped = {}
    /\ drag = {}
    /\ hover = {}
    /\ next_entity = 1
    /\ despawns = {}
    /\ spawns = <<>>
    /\ inserts = {}
    /\ combine_events = <<>>
    /\ slime_events = <<>>
    /\ spider_events = <<>>
    /\ spiders_killed = 0
    /\ timer = 0
    /\ panic = "none"

\* The environment of the main specification: MaxFrames frames, a pointer
\* that comes near the Reach newest entities, frames of any length.
Init ==
    /\ Startup
    /\ env = [frames |-> MaxFrames, reach |-> Reach, near |-> MaxNear,
             long |-> TRUE, rng |-> "any"]


(***************************************************************************)
(* The frame: input, events and the State driver.                          *)
(***************************************************************************)
\* Input::press and Input::release as mouse_button_input_system applies
\* them to the button events of a frame, after Input::clear.
InputPress(st) ==
    [pressed |-> TRUE, jp |-> st.jp \/ ~st.pressed, jr |-> st.jr]
InputRelease(st) ==
    [pressed |-> FALSE, jp |-> st.jp, jr |-> st.jr \/ st.pressed]
RECURSIVE InputApply(_, _)
InputApply(st, evs) ==
    IF evs = <<>> THEN st
    ELSE InputApply(IF Head(evs) = "press" THEN InputPress(st)
                    ELSE InputRelease(st), Tail(evs))
\* the button events one frame may bring
MouseEvents == {<<>>, <<"press">>, <<"release">>,
                <<"press", "release">>, <<"release", "press">>}

\* Events::update (add_event, main.rs:32-34): events live through the frame
\* that sent them and the next one.
IsYoung(e) == e.age = 0
Aged(e) == [e EXCEPT !.age = 1]
EventsUpdate(q) ==
    LET kept == SelectSeq(q, IsYoung)
    IN [i \in 1..Len(kept) |-> Aged(kept[i])]

\* System sets in which the spawn timer also runs during GameOver, which the
\* property of the phases without rules must tell from the sets of main.rs.
OnUpdateTimerInGameOver(s) ==
    CASE s = "PreGame" -> {"start_game_on_click"}
      [] s = "InGame" -> {"drag_start", "drag_update", "drag_end",
                          "mouse_hover", "slime_spawner", "combine",
                          "spider_spawner", "spider_spawn_timer",
                          "end_if_spider_reaches_garden"}
      [] s = "GameOver" -> {"restart_game_on_click", "spider_spawn_timer"}

\* The systems of each system set (main.rs:45-84).  Systems that only touch
\* sprites, text and menus are left out.
OnUpdate(s) ==
    CASE s = "PreGame" -> {"start_game_on_click"}
      [] s = "InGame" -> {"drag_start", "drag_update", "drag_end",
                          "mouse_hover", "slime_spawner", "combine",
                          "spider_spawner", "spider_spawn_timer",
                          "end_if_spider_reaches_garden"}
      [] s = "GameOver" -> {"restart_game_on_click"}
OnEnter(s) ==
    CASE s = "InGame" -> {"spawn_initial_slimes", "setup_spider_spawn_timer",
                          "reset_score"}
      [] OTHER -> {}
OnExit(s) ==
    CASE s = "GameOver" -> {"despawn_all_entities"}
      [] OTHER -> {}

\* The systems of the pass in progress: on_update, on_enter and on_exit
\* through should_run_adapter, and sync_mouse_position (no run criteria)
\* in the first pass of the frame.
PassSystems ==
    (IF first_pass THEN {"sync_mouse_position"} ELSE {})
    \cup (IF end_next_loop THEN {}
          ELSE CASE transition = "None" -> OnUpdate(phase)
                 [] transition = "Exiting" -> OnExit(phase)
                 [] transition = "Entering" -> OnEnter(target)
                 [] transition = "Startup" -> OnEnter(phase)
                 [] OTHER -> {})

\* Systems that share no component, resource or event queue cannot observe
\* their relative order: the model runs such groups one after the other and
\* leaves the order inside a group free.
Group(sys) ==
    CASE sys \in {"spider_spawn_timer", "spider_spawner"} -> 1
      [] sys = "end_if_spider_reaches_garden" -> 3
      [] OTHER -> 2
MayRun(sys) ==
    /\ pc = "systems"
    /\ panic = "none"
    /\ sys \in PassSystems \ ran
    /\ \A o \in PassSystems \ ran : Group(o) >= Group(sys)

Ran(sys) == ran' = ran \cup {sys}

\* time.delta(): a frame takes 1 time unit, or MaxDelta units (a long
\* frame).
Deltas == IF env.long THEN {1, MaxDelta} ELSE {1}

\* The window system, the clock and the physics step between two frames:
\* the button events, the frame's length, and the spiders that crossed
\* GARDEN_X.
FrameStart ==
    /\ pc = "idle"
    /\ panic = "none"
    /\ frame < env.frames
    /\ frame' = frame + 1
    /\ delta' \in Deltas
    /\ pc' = "criteria"
    /\ first_pass' = TRUE
    /\ ran' = {}
    /\ \E evs \in MouseEvents :
         LET st == InputApply([pressed |-> pressed, jp |-> FALSE, jr |-> FALSE],
                              evs)
         IN /\ pressed' = st.pressed
            /\ just_pressed' = st.jp
            /\ just_released' = st.jr
            /\ press_edge' = st.jp
    /\ \E crossed \in SUBSET {e \in DOMAIN spiders : ~spiders[e].beyond} :
         spiders' = [e \in DOMAIN spiders |->
                       IF e \in crossed THEN [spiders[e] EXCEPT !.beyond = TRUE]
                       ELSE spiders[e]]
    /\ combine_events' = EventsUpdate(combine_events)
    /\ slime_events' = EventsUpdate(slime_events)
    /\ spider_events' = EventsUpdate(spider_events)
    /\ UNCHANGED <<phase, transition, target, scheduled, prep_exit,
                   end_next_loop, mouse, near, slimes, snapped, drag, hover,
                   next_entity, command_vars, resource_vars, panic, env>>

\* The run criterion of the State driver (State::get_driver).
state_cleaner ==
    /\ pc = "criteria"
    /\ panic = "none"
    /\ IF prep_exit /\ scheduled = "None"
       THEN /\ prep_exit' = FALSE
            /\ end_next_loop' = TRUE
            /\ pc' = "systems"
            /\ UNCHANGED <<phase, transition, target, scheduled>>
       ELSE IF ~prep_exit /\ end_next_loop
       THEN /\ end_next_loop' = FALSE
            /\ pc' = "idle"
            /\ UNCHANGED <<phase, transition, target, scheduled, prep_exit>>
       ELSE /\ IF scheduled # "None"
               THEN /\ transition' = "Exiting"
                    /\ target' = scheduled
                    /\ scheduled' = "None"
                    /\ phase' = phase
               ELSE /\ transition' =
                         CASE transition = "Exiting" -> "Entering"
                           [] transition = "PreStartup" -> "Startup"
                           [] OTHER -> "None"
                    /\ phase' = IF transition = "Exiting" THEN target ELSE phase
                    /\ UNCHANGED <<target, scheduled>>
            /\ prep_exit' = (transition' = "None")
            /\ pc' = "systems"
            /\ UNCHANGED end_next_loop
    /\ ran' = {}
    /\ UNCHANGED <<first_pass, frame, delta, input_vars, mouse, near, world_vars,
                   flag_vars, command_vars, event_vars, resource_vars, panic,
                   env>>

\* The end of a pass: the command buffers of its systems are applied.
apply_buffers ==
    /\ pc = "systems"
    /\ panic = "none"
    /\ ran = PassSystems
    /\ LET born == DOMAIN spawns
           kept_slimes == DOMAIN slimes \ despawns
           kept_spiders == DOMAIN spiders \ despawns
           new_slimes == {e \in born : spawns[e].kind = "slime"}
           new_spiders == {e \in born : spawns[e].kind = "spider"}
       IN /\ slimes' = [e \in kept_slimes \cup new_slimes |->
                          IF e \in new_slimes
                          THEN [color |-> spawns[e].color, size |-> spawns[e].size]
                          ELSE slimes[e]]
          /\ spiders' = [e \in kept_spiders \cup new_spiders |->
                           IF e \in new_spiders
                           THEN [level |-> spawns[e].level,
                                 weakness |-> spawns[e].weakness,
                                 speed |-> spawns[e].speed,
                                 beyond |-> FALSE]
                           ELSE spiders[e]]
          /\ snapped' = {}
          /\ drag' = drag \ despawns
          /\ hover' = hover \ despawns
          /\ near' = near \ despawns
    /\ spiders_killed' = IF "ScoreResource" \in inserts THEN 0 ELSE spiders_killed
    /\ timer' = IF "SpiderSpawnTimer" \in inserts THEN 0 ELSE timer
    /\ despawns' = {}
    /\ spawns' = <<>>
    /\ inserts' = {}
    /\ pc' = "criteria"
    /\ first_pass' = FALSE
    /\ ran' = {}
    /\ UNCHANGED <<phase, transition, target, scheduled, prep_exit,
                   end_next_loop, frame, delta, input_vars, mouse,
                   next_entity, event_vars, panic, env>>

(***************************************************************************)
(* The Game State Machine's systems.                                       *)
(***************************************************************************)
pass_vars == <<phase, transition, target, prep_exit, end_next_loop, pc,
               first_pass, frame, delta, env>>

\* State::set: Err(AlreadyInState) in the state asked for,
\* Err(StateAlreadyQueued) when a change is already scheduled.
SetOk(s) == phase # s /\ scheduled = "None"

\* A start that does not wait for the click, which the property of the
\* Phase transitions must tell from start_game_on_click.
StartWithoutClick ==
    /\ MayRun("start_game_on_click")
    /\ Ran("start_game_on_click")
    /\ IF SetOk("InGame")
       THEN scheduled' = "InGame" /\ UNCHANGED panic
       ELSE panic' = "start_game_on_click" /\ UNCHANGED scheduled
    /\ UNCHANGED <<pass_vars, input_vars, mouse, near, world_vars, flag_vars,
                   command_vars, event_vars, resource_vars>>

\* main.rs:139-143
start_game_on_click ==
    /\ MayRun("start_game_on_click")
    /\ Ran("start_game_on_click")
    /\ IF just_pressed
       THEN IF SetOk("InGame")
            THEN scheduled' = "InGame" /\ UNCHANGED panic
            ELSE panic' = "start_game_on_click" /\ UNCHANGED scheduled
       ELSE UNCHANGED <<scheduled, panic>>
    /\ UNCHANGED <<pass_vars, input_vars, mouse, near, world_vars, flag_vars,
                   command_vars, event_vars, resource_vars>>

\* main.rs:189-194; Input::reset_all clears pressed, just_pressed and
\* just_released.
restart_game_on_click ==
    /\ MayRun("restart_game_on_click")
    /\ Ran("restart_game_on_click")
    /\ IF just_pressed
       THEN /\ pressed' = FALSE
            /\ just_pressed' = FALSE
            /\ just_released' = FALSE
            /\ IF SetOk("InGame")
               THEN scheduled' = "InGame" /\ UNCHANGED panic
               ELSE panic' = "restart_game_on_click" /\ UNCHANGED scheduled
       ELSE UNCHANGED <<pressed, just_pressed, just_released, scheduled, panic>>
    /\ UNCHANGED <<pass_vars, press_edge, mouse, near, world_vars, flag_vars,
                   command_vars, event_vars, resource_vars>>

\* main.rs:205-212
despawn_all_entities ==
    /\ MayRun("despawn_all_entities")
    /\ Ran("despawn_all_entities")
    /\ despawns' = despawns \cup DOMAIN slimes \cup DOMAIN spiders
    /\ UNCHANGED <<pass_vars, scheduled, input_vars, mouse, near, world_vars,
                   flag_vars, spawns, inserts, event_vars, resource_vars, panic>>

SpawnSlimeEvent(color, size) == [color |-> color, size |-> size, age |-> 0]

\* One round of initial slimes instead of two, which the property of the
\* entry into InGame must tell from InitialSlimes.
InitialSlimesOneRound ==
    [i \in 1..Len(ALL) |-> [color |-> ALL[i], size |-> 1, age |-> 0]]

\* main.rs:1019-1028: the requests sent, in order.
InitialSlimes ==
    [i \in 1..(INITIAL_ROUNDS * Len(ALL)) |->
        SpawnSlimeEvent(ALL[((i - 1) % Len(ALL)) + 1], 1)]

\* main.rs:1016-1029
spawn_initial_slimes ==
    /\ MayRun("spawn_initial_slimes")
    /\ Ran("spawn_initial_slimes")
    /\ slime_events' = slime_events \o InitialSlimes
    /\ UNCHANGED <<pass_vars, scheduled, input_vars, mouse, near, world_vars,
                   flag_vars, command_vars, combine_events, spider_events,
                   resource_vars, panic>>

\* main.rs:1031-1036
setup_spider_spawn_timer ==
    /\ MayRun("setup_spider_spawn_timer")
    /\ Ran("setup_spider_spawn_timer")
    /\ inserts' = inserts \cup {"SpiderSpawnTimer"}
    /\ UNCHANGED <<pass_vars, scheduled, input_vars, mouse, near, world_vars,
                   flag_vars, despawns, spawns, event_vars, resource_vars,
                   panic>>

\* main.rs:1138-1143
reset_score ==
    /\ MayRun("reset_score")
    /\ Ran("reset_score")
    /\ inserts' = inserts \cup {"ScoreResource"}
    /\ UNCHANGED <<pass_vars, scheduled, input_vars, mouse, near, world_vars,
                   flag_vars, despawns, spawns, event_vars, resource_vars,
                   panic>>

\* The spiders with transform.translation.x < GARDEN_X (main.rs:1080).
BeyondGarden == {e \in DOMAIN spiders : spiders[e].beyond}

\* main.rs:1075-1084: one State::set per spider beyond the garden line, each
\* unwrapped.
end_if_spider_reaches_garden ==
    /\ MayRun("end_if_spider_reaches_garden")
    /\ Ran("end_if_spider_reaches_garden")
    /\ IF BeyondGarden = {}
       THEN UNCHANGED <<scheduled, panic>>
       ELSE IF ~SetOk("GameOver")
       THEN panic' = "end_if_spider_reaches_garden" /\ UNCHANGED scheduled
       ELSE /\ scheduled' = "GameOver"
            /\ panic' = IF Cardinality(BeyondGarden) > 1
                        THEN "end_if_spider_reaches_garden" ELSE panic
    /\ UNCHANGED <<pass_vars, input_vars, mouse, near, world_vars, flag_vars,
                   command_vars, event_vars, resource_vars>>

(***************************************************************************)
(* The Interaction Tracker.                                                *)
(***************************************************************************)
\* The entities the pointer can come near to (bounds MaxNear and Reach).
Reachable ==
    Newest(DOMAIN slimes, env.reach) \cup Newest(DOMAIN spiders, env.reach)
NearChoices == {n \in SUBSET Reachable : Cardinality(n) <= env.near}

\* main.rs:1165-1183: MousePosition becomes the cursor's world position, or
\* None when the cursor is off the window.
sync_mouse_position ==
    /\ MayRun("sync_mouse_position")
    /\ Ran("sync_mouse_position")
    /\ \/ mouse' = "absent" /\ near' = {}
       \/ mouse' = "present" /\ near' \in NearChoices
    /\ UNCHANGED <<pass_vars, scheduled, input_vars, world_vars, flag_vars,
                   command_vars, event_vars, resource_vars, panic>>

\* Queries that do not ask for DragActive and so find the spiders as well,
\* which the property of the spiders must tell from the queries of main.rs.
DraggableWithSpiders == DOMAIN slimes \cup DOMAIN spiders

\* The entities of draggable_query and drag_query: those with DragActive,
\* which slime_spawner inserts (main.rs:738) and spider_spawner does not.
Draggable == DOMAIN slimes

\* A hover test that forgets the drag flag, which the property of Drag and
\* Hover must tell from the test of main.rs.
HoverTargetsDragged == {e \in Interactable : e \in near}

\* A hover test that takes an entity without DragActive (a spider) for a
\* dragged one, which the property of the hover update must tell from the
\* test of main.rs.
HoverTargetsWithDragActive ==
    {e \in DOMAIN slimes : e \in near /\ e \notin drag}

\* main.rs:278-279, over the entities of the query: inside the activation
\* radius and not dragged.
HoverTargets == {e \in Interactable : e \in near /\ e \notin drag}

\* main.rs:267-291
mouse_hover ==
    /\ MayRun("mouse_hover")
    /\ Ran("mouse_hover")
    /\ hover' = IF mouse = "present" THEN HoverTargets ELSE hover
    /\ UNCHANGED <<pass_vars, scheduled, input_vars, mouse, near, world_vars,
                   drag, command_vars, event_vars, resource_vars, panic>>

\* main.rs:353: the entities the scan of drag_start can stop at.
DragCandidates == {e \in Draggable : e \in near}

\* A scan without the break of main.rs:359, which the property of the press
\* edge must tell from drag_start.
DragStartWithoutBreak ==
    /\ MayRun("drag_start")
    /\ Ran("drag_start")
    /\ IF ~just_pressed
       THEN UNCHANGED <<drag, hover, panic>>
       ELSE IF mouse = "absent"
       THEN panic' = "drag_start" /\ UNCHANGED <<drag, hover>>
       ELSE /\ drag' = drag \cup DragCandidates
            /\ hover' = hover \ DragCandidates
            /\ UNCHANGED panic
    /\ UNCHANGED <<pass_vars, scheduled, input_vars, mouse, near, world_vars,
                   command_vars, event_vars, resource_vars>>

\* A start of a drag that leaves the Hover flag of the entity as it is, which
\* the property of the requests' entities must tell from drag_start.
DragStartKeepsHover ==
    /\ MayRun("drag_start")
    /\ Ran("drag_start")
    /\ IF ~just_pressed
       THEN UNCHANGED <<drag, panic>>
       ELSE IF mouse = "absent"
       THEN panic' = "drag_start" /\ UNCHANGED drag
       ELSE IF DragCandidates = {}
       THEN UNCHANGED <<drag, panic>>
       ELSE /\ \E e \in DragCandidates : drag' = drag \cup {e}
            /\ UNCHANGED panic
    /\ UNCHANGED <<pass_vars, scheduled, input_vars, mouse, near, world_vars,
                   hover, command_vars, event_vars, resource_vars>>

\* main.rs:337-363.  The scan stops at the first candidate in the query's
\* iteration order, which the program does not fix.
drag_start ==
    /\ MayRun("drag_start")
    /\ Ran("drag_start")
    /\ IF ~just_pressed
       THEN UNCHANGED <<drag, hover, panic>>
       ELSE IF mouse = "absent"
       THEN panic' = "drag_start" /\ UNCHANGED <<drag, hover>>
       ELSE IF DragCandidates = {}
       THEN UNCHANGED <<drag, hover, panic>>
       ELSE /\ \E e \in DragCandidates :
                 /\ drag' = drag \cup {e}
                 /\ hover' = hover \ {e}
            /\ UNCHANGED panic
    /\ UNCHANGED <<pass_vars, scheduled, input_vars, mouse, near, world_vars,
                   command_vars, event_vars, resource_vars>>

\* An update that stops at the first dragged entity, as the scans of
\* drag_start and drag_end do, which the property of the drag update must
\* tell from drag_update.
DragUpdateFirstOnly ==
    /\ MayRun("drag_update")
    /\ Ran("drag_update")
    /\ \E moved \in (IF mouse = "present" /\ drag \cap Draggable # {}
                     THEN {{e} : e \in drag \cap Draggable} ELSE {{}}) :
         /\ near' = near \cup moved
         /\ snapped' = snapped \cup moved
    /\ UNCHANGED <<pass_vars, scheduled, input_vars, mouse, slimes, spiders,
                   next_entity, flag_vars, command_vars, event_vars,
                   resource_vars, panic>>

\* main.rs:365-377: every dragged entity is moved to the pointer, and is
\* then inside its own activation radius.
drag_update ==
    /\ MayRun("drag_update")
    /\ Ran("drag_update")
    /\ near' = IF mouse = "present" THEN near \cup (drag \cap Draggable) ELSE near
    /\ snapped' = IF mouse = "present" THEN snapped \cup (drag \cap Draggable)
                  ELSE snapped
    /\ UNCHANGED <<pass_vars, scheduled, input_vars, mouse, slimes, spiders,
                   next_entity, flag_vars, command_vars, event_vars,
                   resource_vars, panic>>

CombineEvent(base, addition) == [base |-> base, addition |-> addition, age |-> 0]

\* main.rs:401-412: the entity the first loop can stop at, or none.
Additions == IF drag \cap Draggable = {} THEN {0} ELSE drag \cap Draggable
\* main.rs:413-418
Bases == IF hover = {} THEN {0} ELSE hover

\* main.rs:385-427.  Entity 0 stands for None.
drag_end ==
    /\ MayRun("drag_end")
    /\ Ran("drag_end")
    /\ IF ~just_released
       THEN UNCHANGED <<drag, combine_events, panic>>
       ELSE \E addition \in Additions, base \in Bases :
              /\ drag' = drag \ {addition}
              /\ IF addition # 0 /\ base # 0
                 THEN IF mouse = "absent"
                      THEN /\ panic' = "drag_end"
                           /\ UNCHANGED combine_events
                      ELSE /\ combine_events' =
                                Append(combine_events, CombineEvent(base, addition))
                           /\ UNCHANGED panic
                 ELSE UNCHANGED <<combine_events, panic>>
    /\ UNCHANGED <<pass_vars, scheduled, input_vars, mouse, near, world_vars,
                   hover, command_vars, slime_events, spider_events,
                   resource_vars>>

(***************************************************************************)
(* The Combination Resolver.                                               *)
(***************************************************************************)
Request(color, size) == [color |-> color, size |-> size]

\* Variants of the resolver's rules that the properties of the resolver
\* must tell from the rules of main.rs: a merge that keeps the base's colour, a merge
\* that sends the overflow piece first, a kill that needs a slime larger than
\* the spider's level, a split that also sends the empty half.
SlimeMergeBaseColor(base_slime, addition_slime, random_color) ==
    LET new_size == base_slime.size + addition_slime.size
    IN IF new_size > SLIME_SIZE_MAX
       THEN <<Request(base_slime.color, SLIME_SIZE_MAX \div 2),
              Request(base_slime.color, SLIME_SIZE_MAX - SLIME_SIZE_MAX \div 2),
              Request(base_slime.color, new_size - SLIME_SIZE_MAX),
              Request(random_color, 1)>>
       ELSE <<Request(base_slime.color, new_size)>>
SlimeMergeOverflowFirst(base_slime, addition_slime, random_color) ==
    LET new_size == base_slime.size + addition_slime.size
        new_color == addition_slime.color
    IN IF new_size > SLIME_SIZE_MAX
       THEN <<Request(new_color, new_size - SLIME_SIZE_MAX),
              Request(new_color, SLIME_SIZE_MAX \div 2),
              Request(new_color, SLIME_SIZE_MAX - SLIME_SIZE_MAX \div 2),
              Request(random_color, 1)>>
       ELSE <<Request(new_color, new_size)>>
SpiderKilledByLarger(spider, slime) ==
    spider.level < slime.size /\ spider.weakness = slime.color
SlimeSplitBoth(slime) ==
    <<Request(slime.color, slime.size \div 2),
      Request(slime.color, slime.size - slime.size \div 2)>>

\* A merge that does not look at the maximum size, which the property of the
\* sizes must tell from the merge of main.rs.
SlimeMergeUnbounded(base_slime, addition_slime, random_color) ==
    <<Request(addition_slime.color, base_slime.size + addition_slime.size)>>

\* main.rs:440-466: the spawn requests of a slime + slime merge.
SlimeMerge(base_slime, addition_slime, random_color) ==
    LET new_size == base_slime.size + addition_slime.size
        new_color == addition_slime.color
    IN IF new_size > SLIME_SIZE_MAX
       THEN LET overflow == clamp(new_size - SLIME_SIZE_MAX,
                                  SLIME_SIZE_MIN, SLIME_SIZE_MAX)
            IN <<Request(new_color, SLIME_SIZE_MAX \div 2),
                 Request(new_color, SLIME_SIZE_MAX - SLIME_SIZE_MAX \div 2),
                 Request(new_color, overflow),
                 Request(random_color, 1)>>
       ELSE <<Request(new_color, new_size)>>

\* main.rs:472
SpiderKilled(spider, slime) ==
    spider.level <= slime.size /\ spider.weakness = slime.color

\* A combat that uses the slime up, which the property of the slime supply
\* must tell from the split of main.rs.
SlimeSplitNothing(slime) == <<>>

IsPositive(r) == r.size > 0
\* main.rs:476-487: the pieces the slime is replaced by.
SlimeSplit(slime) ==
    SelectSeq(<<Request(slime.color, slime.size \div 2),
                Request(slime.color, slime.size - slime.size \div 2)>>,
              IsPositive)

\* A resolver whose second branch does not look at the base unless it is a
\* spider, which the property of the unrecognized pairings must tell from
\* CombineOne.
CombineOneAnyBase(ev, acc) ==
    IF ev.base \in DOMAIN slimes /\ ev.addition \in DOMAIN slimes
    THEN {[killed |-> acc.killed,
           requests |-> acc.requests
                        \o <<Request(slimes[ev.addition].color,
                                     Min(slimes[ev.base].size
                                         + slimes[ev.addition].size,
                                         SLIME_SIZE_MAX))>>,
           despawn |-> acc.despawn \cup {ev.base, ev.addition}]}
    ELSE IF ev.addition \in DOMAIN slimes
    THEN LET kill == /\ ev.base \in DOMAIN spiders
                     /\ spiders[ev.base].level <= slimes[ev.addition].size
                     /\ spiders[ev.base].weakness = slimes[ev.addition].color
         IN {[killed |-> acc.killed + (IF kill THEN 1 ELSE 0),
              requests |-> acc.requests
                           \o <<Request(slimes[ev.addition].color,
                                        slimes[ev.addition].size)>>,
              despawn |-> acc.despawn \cup {ev.addition}
                          \cup (IF kill THEN {ev.base} ELSE {})]}
    ELSE {acc}

\* main.rs:439-489: the outcomes of one CombineEvent, added to acc.  The
\* queries read the world as it was when the pass began: despawns are
\* commands, applied after the pass.
CombineOne(ev, acc) ==
    IF ev.base \in DOMAIN slimes /\ ev.addition \in DOMAIN slimes
    THEN {[killed |-> acc.killed,
           requests |-> acc.requests
                        \o SlimeMerge(slimes[ev.base], slimes[ev.addition], r),
           despawn |-> acc.despawn \cup {ev.base, ev.addition}]
          : r \in SlimeColor}
    ELSE IF ev.base \in DOMAIN spiders /\ ev.addition \in DOMAIN slimes
    THEN LET kill == SpiderKilled(spiders[ev.base], slimes[ev.addition])
         IN {[killed |-> acc.killed + (IF kill THEN 1 ELSE 0),
              requests |-> acc.requests \o SlimeSplit(slimes[ev.addition]),
              despawn |-> acc.despawn \cup {ev.addition}
                          \cup (IF kill THEN {ev.base} ELSE {})]}
    ELSE {acc}

RECURSIVE CombineAll(_, _)
CombineAll(evs, acc) ==
    IF evs = <<>> THEN {acc}
    ELSE UNION {CombineAll(Tail(evs), a) : a \in CombineOne(Head(evs), acc)}

\* main.rs:429-491
combine ==
    /\ MayRun("combine")
    /\ Ran("combine")
    /\ \E out \in CombineAll(combine_events,
                             [killed |-> 0, requests |-> <<>>, despawn |-> {}]) :
         /\ spiders_killed' = spiders_killed + out.killed
         /\ slime_events' = slime_events \o
              [i \in 1..Len(out.requests) |->
                 SpawnSlimeEvent(out.requests[i].color, out.requests[i].size)]
         /\ despawns' = despawns \cup out.despawn
    /\ combine_events' = <<>>
    /\ UNCHANGED <<pass_vars, scheduled, input_vars, mouse, near, world_vars,
                   flag_vars, spawns, inserts, spider_events, timer, panic>>

(***************************************************************************)
(* The Spawn Director and the Wave Director.                               *)
(***************************************************************************)
\* main.rs:720-805: one entity per request, DragActive(false) and
\* HoverActive(false).
slime_spawner ==
    /\ MayRun("slime_spawner")
    /\ Ran("slime_spawner")
    /\ spawns' = spawns @@
         [e \in next_entity..(next_entity + Len(slime_events) - 1) |->
            [kind |-> "slime",
             color |-> slime_events[e - next_entity + 1].color,
             size |-> slime_events[e - next_entity + 1].size]]
    /\ next_entity' = next_entity + Len(slime_events)
    /\ slime_events' = <<>>
    /\ UNCHANGED <<pass_vars, scheduled, input_vars, mouse, near, slimes,
                   spiders, snapped, flag_vars, despawns, inserts, combine_events,
                   spider_events, resource_vars, panic>>

\* main.rs:807-937: one entity per request, HoverActive(false) and no
\* DragActive.
spider_spawner ==
    /\ MayRun("spider_spawner")
    /\ Ran("spider_spawner")
    /\ spawns' = spawns @@
         [e \in next_entity..(next_entity + Len(spider_events) - 1) |->
            [kind |-> "spider",
             level |-> spider_events[e - next_entity + 1].level,
             weakness |-> spider_events[e - next_entity + 1].weakness,
             speed |-> spider_events[e - next_entity + 1].speed]]
    /\ next_entity' = next_entity + Len(spider_events)
    /\ spider_events' = <<>>
    /\ UNCHANGED <<pass_vars, scheduled, input_vars, mouse, near, slimes,
                   spiders, snapped, flag_vars, despawns, inserts, combine_events,
                   slime_events, resource_vars, panic>>

\* The values rng.gen_range draws in spider_spawn_timer: all of its range,
\* or (bound MaxDraw) the lowest levels and the colours of the slimes
\* spawned last.
Draws ==
    IF env.rng = "any" THEN MaxDraw
    ELSE IF env.rng = "all" THEN Len(ALL)
    ELSE 1
\* A range of levels that includes its end, gen_range(1..=5), which the
\* property of the spiders' attributes must tell from the range of main.rs.
LevelsInclusive == 1..Min(SPIDER_LEVEL_END, Draws)
Levels == 1..Min(SPIDER_LEVEL_END - 1, Draws)
Weaknesses == {ALL[Len(ALL) + 1 - i] : i \in 1..Min(Len(ALL), Draws)}

\* main.rs:1038-1059; Timer::tick of a repeating timer.
spider_spawn_timer ==
    /\ MayRun("spider_spawn_timer")
    /\ Ran("spider_spawn_timer")
    /\ LET elapsed == timer + delta
       IN IF elapsed >= TIMER_PERIOD
          THEN /\ timer' = elapsed % TIMER_PERIOD
               /\ \E level \in Levels, weakness \in Weaknesses :
                    spider_events' = Append(spider_events,
                        [level |-> level, weakness |-> weakness,
                         speed |-> SPIDER_SPEED, age |-> 0])
          ELSE /\ timer' = elapsed
               /\ UNCHANGED spider_events
    /\ UNCHANGED <<pass_vars, scheduled, input_vars, mouse, near, world_vars,
                   flag_vars, command_vars, combine_events, slime_events,
                   spiders_killed, panic>>

(***************************************************************************)
(* The application.                                                        *)
(***************************************************************************)
Next ==
    \/ FrameStart
    \/ state_cleaner
    \/ apply_buffers
    \/ sync_mouse_position
    \/ start_game_on_click
    \/ restart_game_on_click
    \/ despawn_all_entities
    \/ spawn_initial_slimes
    \/ setup_spider_spawn_timer
    \/ reset_score
    \/ mouse_hover
    \/ drag_start
    \/ drag_update
    \/ drag_end
    \/ combine
    \/ slime_spawner
    \/ spider_spawner
    \/ spider_spawn_timer
    \/ end_if_spider_reaches_garden

Spec == Init /\ [][Next]_vars

\* The Game State Machine: the pointer reaches the newest slime and the
\* newest spider, and the random generator draws one value, so that all
\* spiders are alike.
InitLifecycle ==
    /\ Startup
    /\ env = [frames |-> LifecycleFrames, reach |-> 1, near |-> 2,
             long |-> TRUE, rng |-> "one"]
SpecLifecycle == InitLifecycle /\ [][Next]_vars

\* The Interaction Tracker in frames too short for the spawn timer to fire.
InitTracker ==
    /\ Startup
    /\ env = [frames |-> TrackerFrames, reach |-> TrackerReach,
             near |-> TrackerNear, long |-> FALSE, rng |-> "one"]
\* No spider is spawned, the game never ends and the systems of GameOver
\* never run.
NextTracker ==
    \/ FrameStart
    \/ state_cleaner
    \/ apply_buffers
    \/ sync_mouse_position
    \/ start_game_on_click
    \/ spawn_initial_slimes
    \/ setup_spider_spawn_timer
    \/ reset_score
    \/ mouse_hover
    \/ drag_start
    \/ drag_update
    \/ drag_end
    \/ combine
    \/ slime_spawner
    \/ spider_spawner
    \/ spider_spawn_timer
    \/ end_if_spider_reaches_garden
SpecTracker == InitTracker /\ [][NextTracker]_vars

\* The same over PointerFrames frames: a drag or a hover that began in one
\* frame meets the pointer and the button of the frames after it.
InitPointer ==
    /\ Startup
    /\ env = [frames |-> PointerFrames, reach |-> 2, near |-> 2,
             long |-> FALSE, rng |-> "one"]
SpecPointer == InitPointer /\ [][NextTracker]_vars

\* A game of GameFrames frames: the frame of the click that starts it, and
\* frames in which the spider of the entry tick meets the newest slime.
InitGame ==
    /\ Startup
    /\ env = [frames |-> GameFrames, reach |-> 1, near |-> 2,
             long |-> TRUE, rng |-> "one"]
SpecGame == InitGame /\ [][Next]_vars

\* Games in which the pointer comes near no entity, under the scheduler's
\* guarantee: as long as the application has not failed, every system of a
\* pass runs, the pass ends and the next frame starts (App::run, the Update
\* stage of each frame).
InitFair ==
    /\ Startup
    /\ env = [frames |-> FairFrames, reach |-> 0, near |-> 0,
             long |-> TRUE, rng |-> "one"]
SpecFair == InitFair /\ [][Next]_vars /\ WF_vars(Next)

(***************************************************************************)
(* The Combination Resolver on every pair of entities.                     *)
(***************************************************************************)
SlimeValues == [color : SlimeColor, size : SLIME_SIZE_MIN..SLIME_SIZE_MAX]
SpiderValues == [level : 1..(SPIDER_LEVEL_END - 1), weakness : SlimeColor,
                 speed : {SPIDER_SPEED}, beyond : {FALSE}]

\* A frame of a game in progress, at the point where the Interaction
\* Tracker has sent the CombineEvent of a release: entity 1 is the base (a
\* slime or a spider), entity 2 the addition (a slime), 3 to 5 are slimes
\* that stand by.  combine, slime_spawner and end_if_spider_reaches_garden
\* have yet to run.
InitCombine ==
    /\ phase = "InGame"
    /\ transition = "None"
    /\ target = "InGame"
    /\ scheduled = "None"
    /\ prep_exit = TRUE
    /\ end_next_loop = FALSE
    /\ pc = "systems"
    /\ first_pass = TRUE
    /\ ran = {"sync_mouse_position", "mouse_hover", "drag_start",
              "drag_update", "drag_end", "spider_spawner",
              "spider_spawn_timer"}
    /\ frame = 1
    /\ delta = 1
    /\ pressed = FALSE
    /\ just_pressed = FALSE
    /\ just_released = TRUE
    /\ press_edge = FALSE
    /\ mouse = "present"
    /\ near = {1, 2}
    /\ \E addition \in SlimeValues :
         \/ \E base \in SlimeValues :
              /\ slimes = [e \in 1..5 |->
                             IF e = 1 THEN base
                             ELSE IF e = 2 THEN addition
                             ELSE [color |-> ALL[e], size |-> SLIME_SIZE_MAX]]
              /\ spiders = <<>>
         \/ \E base \in SpiderValues :
              /\ slimes = [e \in 2..5 |->
                             IF e = 2 THEN addition
                             ELSE [color |-> ALL[e], size |-> SLIME_SIZE_MAX]]
              /\ spiders = [e \in {1} |-> base]
    /\ snapped = {}
    /\ drag = {}
    /\ hover = {1}
    /\ next_entity = 6
    /\ despawns = {}
    /\ spawns = <<>>
    /\ inserts = {}
    /\ combine_events = <<CombineEvent(1, 2)>>
    /\ slime_events = <<>>
    /\ spider_events = <<>>
    /\ spiders_killed = 0
    /\ timer = 1
    /\ panic = "none"
    /\ env = [frames |-> 1, reach |-> 0, near |-> 0, long |-> FALSE,
             rng |-> "one"]

NextCombine ==
    \/ combine
    \/ slime_spawner
    \/ end_if_spider_reaches_garden
    \/ apply_buffers
    \/ state_cleaner

SpecCombine == InitCombine /\ [][NextCombine]_vars

(***************************************************************************)
(* The Combination Resolver on the requests it does not recognize.         *)
(***************************************************************************)
\* The world of InitUnmatched: spiders 1 and 4, slimes 2 and 3; entity 5 has
\* been despawned.
UnmatchedSlimes ==
    (2 :> [color |-> ALL[Len(ALL)], size |-> 2])
    @@ (3 :> [color |-> ALL[1], size |-> 1])
UnmatchedSpiders ==
    (1 :> [level |-> 1, weakness |-> ALL[Len(ALL)], speed |-> SPIDER_SPEED,
           beyond |-> FALSE])
    @@ (4 :> [level |-> 2, weakness |-> ALL[1], speed |-> SPIDER_SPEED,
              beyond |-> FALSE])
\* The values of CombineEvent over entities 1 to 5 that are neither a slime
\* with a slime nor a spider (base) with a slime (addition).  drag_end sends
\* those that name a despawned entity; a spider is an addition in none of
\* the requests it sends, although the type allows it.
UnmatchedRequests ==
    {CombineEvent(b, a) : <<b, a>> \in
        {pr \in (1..5) \X (1..5) :
            /\ ~(pr[1] \in DOMAIN UnmatchedSlimes
                 /\ pr[2] \in DOMAIN UnmatchedSlimes)
            /\ ~(pr[1] \in DOMAIN UnmatchedSpiders
                 /\ pr[2] \in DOMAIN UnmatchedSlimes)}}

\* A frame of a game in progress in which the queue of the Combination
\* Resolver holds up to UnmatchedBatch such requests: combine, slime_spawner
\* and end_if_spider_reaches_garden have yet to run.
InitUnmatched ==
    /\ phase = "InGame"
    /\ transition = "None"
    /\ target = "InGame"
    /\ scheduled = "None"
    /\ prep_exit = TRUE
    /\ end_next_loop = FALSE
    /\ pc = "systems"
    /\ first_pass = TRUE
    /\ ran = {"sync_mouse_position", "mouse_hover", "drag_start",
              "drag_update", "drag_end", "spider_spawner",
              "spider_spawn_timer"}
    /\ frame = 1
    /\ delta = 1
    /\ pressed = FALSE
    /\ just_pressed = FALSE
    /\ just_released = FALSE
    /\ press_edge = FALSE
    /\ mouse = "absent"
    /\ near = {}
    /\ slimes = UnmatchedSlimes
    /\ spiders = UnmatchedSpiders
    /\ snapped = {}
    /\ drag = {}
    /\ hover = {}
    /\ next_entity = 6
    /\ despawns = {}
    /\ spawns = <<>>
    /\ inserts = {}
    /\ \E n \in 1..UnmatchedBatch :
         combine_events \in [1..n -> UnmatchedRequests]
    /\ slime_events = <<>>
    /\ spider_events = <<>>
    /\ spiders_killed = 0
    /\ timer = 1
    /\ panic = "none"
    /\ env = [frames |-> 1, reach |-> 0, near |-> 0, long |-> FALSE,
             rng |-> "one"]

SpecUnmatched == InitUnmatched /\ [][NextCombine]_vars

(***************************************************************************)
(* The Wave Director at every point of its period.                         *)
(***************************************************************************)
\* A frame of a game in progress, with the 16 initial slimes in the world
\* and the timer anywhere in its period: spider_spawn_timer, spider_spawner
\* and end_if_spider_reaches_garden have yet to run, and the random
\* generator draws every level and every colour of its ranges.
InitWave ==
    /\ phase = "InGame"
    /\ transition = "None"
    /\ target = "InGame"
    /\ scheduled = "None"
    /\ prep_exit = TRUE
    /\ end_next_loop = FALSE
    /\ pc = "systems"
    /\ first_pass = TRUE
    /\ ran = {"sync_mouse_position", "mouse_hover", "drag_start",
              "drag_update", "drag_end", "combine", "slime_spawner"}
    /\ frame = 1
    /\ delta \in {1, MaxDelta}
    /\ pressed = FALSE
    /\ just_pressed = FALSE
    /\ just_released = FALSE
    /\ press_edge = FALSE
    /\ mouse = "absent"
    /\ near = {}
    /\ slimes = [e \in 1..Len(InitialSlimes) |->
                   [color |-> InitialSlimes[e].color,
                    size |-> InitialSlimes[e].size]]
    /\ spiders = <<>>
    /\ snapped = {}
    /\ drag = {}
    /\ hover = {}
    /\ next_entity = Len(InitialSlimes) + 1
    /\ despawns = {}
    /\ spawns = <<>>
    /\ inserts = {}
    /\ combine_events = <<>>
    /\ slime_events = <<>>
    /\ spider_events = <<>>
    /\ spiders_killed = 0
    /\ timer \in 0..(TIMER_PERIOD - 1)
    /\ panic = "none"
    /\ env = [frames |-> 1, reach |-> 0, near |-> 0, long |-> TRUE,
             rng |-> "all"]

NextWave ==
    \/ spider_spawn_timer
    \/ spider_spawner
    \/ end_if_spider_reaches_garden
    \/ apply_buffers
    \/ state_cleaner

SpecWave == InitWave /\ [][NextWave]_vars

(***************************************************************************)
(* The Spawn Director on every request.                                    *)
(***************************************************************************)
\* The values of SpawnSlimeEvent.slime: size is a u32, and 0 is one of its
\* values although no system of main.rs sends it.
RequestValues == [color : {ALL[1], ALL[Len(ALL)]}, size : 0..SLIME_SIZE_MAX,
                  age : {0}]

\* A frame of a game in progress in which the queue of the Spawn Director
\* holds up to SpawnerBatch requests of any size: slime_spawner and
\* end_if_spider_reaches_garden have yet to run.
InitSpawner ==
    /\ phase = "InGame"
    /\ transition = "None"
    /\ target = "InGame"
    /\ scheduled = "None"
    /\ prep_exit = TRUE
    /\ end_next_loop = FALSE
    /\ pc = "systems"
    /\ first_pass = TRUE
    /\ ran = {"sync_mouse_position", "mouse_hover", "drag_start",
              "drag_update", "drag_end", "combine", "spider_spawner",
              "spider_spawn_timer"}
    /\ frame = 1
    /\ delta = 1
    /\ pressed = FALSE
    /\ just_pressed = FALSE
    /\ just_released = FALSE
    /\ press_edge = FALSE
    /\ mouse = "absent"
    /\ near = {}
    /\ slimes = [e \in 1..Len(InitialSlimes) |->
                   [color |-> InitialSlimes[e].color,
                    size |-> InitialSlimes[e].size]]
    /\ spiders = <<>>
    /\ snapped = {}
    /\ drag = {}
    /\ hover = {}
    /\ next_entity = Len(InitialSlimes) + 1
    /\ despawns = {}
    /\ spawns = <<>>
    /\ inserts = {}
    /\ combine_events = <<>>
    /\ \E n \in 1..SpawnerBatch : slime_events \in [1..n -> RequestValues]
    /\ spider_events = <<>>
    /\ spiders_killed = 0
    /\ timer = 1
    /\ panic = "none"
    /\ env = [frames |-> 1, reach |-> 0, near |-> 0, long |-> FALSE,
             rng |-> "one"]

NextSpawner ==
    \/ slime_spawner
    \/ end_if_spider_reaches_garden
    \/ apply_buffers
    \/ state_cleaner

SpecSpawner == InitSpawner /\ [][NextSpawner]_vars

(***************************************************************************)
(* Properties of the Combination Resolver.                                 *)
(***************************************************************************)
\* the step in which combine runs, and the step that ends a pass
CombineStep == "combine" \notin ran /\ "combine" \in ran'
ApplyStep == pc = "systems" /\ pc' = "criteria"
\* the spawn requests the step sends, as <<colour, size>> pairs
Emitted ==
    [i \in 1..(Len(slime_events') - Len(slime_events)) |->
       <<slime_events'[Len(slime_events) + i].color,
         slime_events'[Len(slime_events) + i].size>>]
OnlyAppends ==
    /\ Len(slime_events') >= Len(slime_events)
    /\ SubSeq(slime_events', 1, Len(slime_events)) = slime_events
\* the one CombineEvent of the batch pairs a slime with a slime, or a
\* spider with a slime
SlimePair ==
    /\ Len(combine_events) = 1
    /\ combine_events[1].base \in DOMAIN slimes
    /\ combine_events[1].addition \in DOMAIN slimes
SpiderPair ==
    /\ Len(combine_events) = 1
    /\ combine_events[1].base \in DOMAIN spiders
    /\ combine_events[1].addition \in DOMAIN slimes
BaseOfPair == combine_events[1].base
AdditionOfPair == combine_events[1].addition
\* at the end of the pass exactly the entities queued for despawn leave
DespawnsApplied ==
    ApplyStep =>
        /\ DOMAIN slimes \cap DOMAIN slimes' = DOMAIN slimes \ despawns
        /\ DOMAIN spiders \cap DOMAIN spiders' = DOMAIN spiders \ despawns

\* C3: a slime + slime event with sizes a and b, a + b <= 5, sends exactly
\* one spawn request, of size a + b and the addition's colour, and destroys
\* both slimes.
C3_Step ==
    /\ DespawnsApplied
    /\ (CombineStep /\ SlimePair
          /\ slimes[BaseOfPair].size + slimes[AdditionOfPair].size <= 5)
        => /\ OnlyAppends
           /\ Emitted = << <<slimes[AdditionOfPair].color,
                              slimes[BaseOfPair].size
                              + slimes[AdditionOfPair].size>> >>
           /\ {BaseOfPair, AdditionOfPair} \subseteq despawns'
C3_MergeWithinMax == [][C3_Step]_vars
\* combine has merged two slimes of different colours into one of size 5
C3_Witness ==
    /\ "combine" \in ran
    /\ combine_events = <<>>
    /\ \E b \in DOMAIN slimes, a \in DOMAIN slimes :
         /\ despawns = {a, b}
         /\ slimes[a].color # slimes[b].color
         /\ slimes[a].size + slimes[b].size = 5
         /\ \E i \in DOMAIN slime_events :
              slime_events[i].size = 5 /\ slime_events[i].color = slimes[a].color

\* C4: a slime + slime event with a + b > 5 sends four spawn requests, of
\* sizes 2, 3, clamp(a + b - 5, 1, 5) and 1, in this order; the first three
\* of the addition's colour, the fourth of one of the 8 colours; both slimes
\* are destroyed.
C4_Step ==
    (CombineStep /\ SlimePair
      /\ slimes[BaseOfPair].size + slimes[AdditionOfPair].size > 5)
    => LET c == slimes[AdditionOfPair].color
           over == slimes[BaseOfPair].size + slimes[AdditionOfPair].size - 5
       IN /\ OnlyAppends
          /\ \E random \in {"Red", "Green", "Blue", "Cyan", "Purple", "Yellow",
                             "Black", "White"} :
               Emitted = << <<c, 2>>, <<c, 3>>,
                            <<c, IF over < 1 THEN 1
                                 ELSE IF over > 5 THEN 5 ELSE over>>,
                            <<random, 1>> >>
          /\ {BaseOfPair, AdditionOfPair} \subseteq despawns'
C4_MergeOverflow == [][C4_Step]_vars
\* combine has merged a size 4 and a size 5 slime: the third request has
\* size 4, the fourth a colour other than the addition's
C4_Witness ==
    /\ "combine" \in ran
    /\ Len(slime_events) = 4
    /\ slime_events[3].size = 4
    /\ slime_events[4].color # slime_events[1].color
    /\ \E b \in DOMAIN slimes, a \in DOMAIN slimes :
         despawns = {a, b} /\ slimes[a].size + slimes[b].size = 9

\* C5: a spider (level L, weakness W) + slime (size S, colour C) event
\* destroys the spider and adds 1 to spiders_killed exactly when L <= S and
\* C = W; otherwise the spider and the score are unchanged.
C5_Step ==
    /\ DespawnsApplied
    /\ (CombineStep /\ SpiderPair)
        => IF /\ spiders[BaseOfPair].level <= slimes[AdditionOfPair].size
              /\ slimes[AdditionOfPair].color = spiders[BaseOfPair].weakness
           THEN /\ BaseOfPair \in despawns'
                /\ spiders_killed' = spiders_killed + 1
           ELSE /\ BaseOfPair \notin despawns'
                /\ spiders' = spiders
                /\ spiders_killed' = spiders_killed
C5_SpiderKill == [][C5_Step]_vars
\* the pass has ended with the spider killed, the score at 1 and the halves
\* of a White slime of size 4 in the world
C5_Witness ==
    /\ pc = "criteria"
    /\ spiders_killed = 1
    /\ spiders = <<>>
    /\ \E e \in DOMAIN slimes : slimes[e].size = 2 /\ slimes[e].color = "White"
    /\ slime_events = <<>>
\* C18: every slime that is requested or materialized has a size in [1,5],
\* whatever initial spawns, merges (with or without overflow) and combats
\* came before: the spawn requests in the queue, the spawn commands of the
\* Spawn Director and the slimes of the world.
C18_SlimeSizes ==
    /\ \A i \in DOMAIN slime_events :
         slime_events[i].size >= 1 /\ slime_events[i].size <= 5
    /\ \A e \in DOMAIN spawns :
         spawns[e].kind = "slime" => (spawns[e].size >= 1 /\ spawns[e].size <= 5)
    /\ \A e \in DOMAIN slimes : slimes[e].size >= 1 /\ slimes[e].size <= 5
\* the pieces of a merge of two slimes of size 5 are in the world: sizes 2,
\* 3, 5 (the overflow) and 1
C18_Witness ==
    /\ pc = "criteria"
    /\ {6, 7, 8, 9} \subseteq DOMAIN slimes
    /\ <<slimes[6].size, slimes[7].size, slimes[8].size, slimes[9].size>>
         = <<2, 3, 5, 1>>

\* C20: a slime spawn request of size 0 presented to the Spawn Director is
\* dropped without side effects: slime_spawner reserves an entity and
\* queues a spawn command for the requests of a size greater than 0 only,
\* and no slime of size 0 comes into the world.
SlimeSpawnerStep == "slime_spawner" \notin ran /\ "slime_spawner" \in ran'
C20_Step ==
    /\ SlimeSpawnerStep =>
          LET wellformed == {i \in DOMAIN slime_events : slime_events[i].size > 0}
          IN /\ Cardinality(DOMAIN spawns')
                  = Cardinality(DOMAIN spawns) + Cardinality(wellformed)
             /\ next_entity' = next_entity + Cardinality(wellformed)
             /\ \A e \in DOMAIN spawns' :
                  spawns'[e].kind = "slime" => spawns'[e].size # 0
    /\ \A e \in DOMAIN slimes' : slimes'[e].size # 0
RECURSIVE Resolved(_, _, _)
Resolved(evs, gone, acc) ==
    IF evs = <<>> THEN acc
    ELSE LET ev == Head(evs)
         IN IF ev.base \in gone \/ ev.addition \in gone
            THEN Resolved(Tail(evs), gone, acc)
            ELSE IF ev.base \in DOMAIN slimes /\ ev.addition \in DOMAIN slimes
            THEN Resolved(Tail(evs), gone \cup {ev.base, ev.addition},
                    [sent |-> acc.sent
                              + (IF slimes[ev.base].size
                                    + slimes[ev.addition].size > 5
                                 THEN 4 ELSE 1),
                     killed |-> acc.killed,
                     destroyed |-> acc.destroyed \cup {ev.base, ev.addition}])
            ELSE IF ev.base \in DOMAIN spiders /\ ev.addition \in DOMAIN slimes
            THEN LET kill == /\ spiders[ev.base].level <= slimes[ev.addition].size
                             /\ spiders[ev.base].weakness = slimes[ev.addition].color
                     dead == {ev.addition} \cup (IF kill THEN {ev.base} ELSE {})
                 IN Resolved(Tail(evs), gone \cup dead,
                       [sent |-> acc.sent
                                 + (IF slimes[ev.addition].size \div 2 > 0
                                    THEN 2 ELSE 1),
                        killed |-> acc.killed + (IF kill THEN 1 ELSE 0),
                        destroyed |-> acc.destroyed \cup dead])
            ELSE Resolved(Tail(evs), gone, acc)
C12_Step ==
    CombineStep
    => LET once == Resolved(combine_events, {},
                            [sent |-> 0, killed |-> 0, destroyed |-> {}])
       IN /\ OnlyAppends
          /\ Len(Emitted) = once.sent
          /\ spiders_killed' = spiders_killed + once.killed
          /\ despawns' = despawns \cup once.destroyed
C12_StaleRequestIgnored == [][C12_Step]_vars

\* C24: a CombineRequest that pairs neither a slime with a slime nor a
\* spider (base) with a slime (addition), because the addition is a spider
\* or because one of its entities is no longer in the world, has no effect:
\* a batch of such requests sends no spawn request, queues no destruction
\* and leaves the score as it is, and the end of the pass takes no entity
\* that is not queued for destruction.
Unmatched(ev) ==
    /\ ~(ev.base \in DOMAIN slimes /\ ev.addition \in DOMAIN slimes)
    /\ ~(ev.base \in DOMAIN spiders /\ ev.addition \in DOMAIN slimes)
C24_Step ==
    /\ DespawnsApplied
    /\ (/\ CombineStep
        /\ combine_events # <<>>
        /\ \A i \in DOMAIN combine_events : Unmatched(combine_events[i]))
       => /\ slime_events' = slime_events
          /\ despawns' = despawns
          /\ spiders_killed' = spiders_killed
          /\ combine_events' = <<>>
C24_UnmatchedDiscarded == [][C24_Step]_vars
\* the pass in which combine read the requests has ended: the two slimes
\* and the two spiders are in the world, no entity was added and the score
\* is 0
C24_Witness ==
    /\ pc = "criteria"
    /\ ran = {}
    /\ DOMAIN slimes = {2, 3}
    /\ DOMAIN spiders = {1, 4}
    /\ slimes[2].size = 2
    /\ next_entity = 6
    /\ combine_events = <<>>
    /\ slime_events = <<>>
    /\ spiders_killed = 0

\* C6: a spider + slime event always destroys the slime and sends one spawn
\* request of colour C for each of floor(S/2) and S - floor(S/2) that is
\* greater than zero.
C6_Step ==
    (CombineStep /\ SpiderPair)
    => LET c == slimes[AdditionOfPair].color
           s == slimes[AdditionOfPair].size
       IN /\ OnlyAppends
          /\ Emitted = IF s \div 2 > 0
                       THEN << <<c, s \div 2>>, <<c, s - s \div 2>> >>
                       ELSE << <<c, s - s \div 2>> >>
          /\ AdditionOfPair \in despawns'
C6_SlimeSplit == [][C6_Step]_vars
\* combine has split a size 1 slime against a spider: one request, size 1
C6_Witness ==
    /\ "combine" \in ran
    /\ spiders # <<>>
    /\ \E a \in DOMAIN slimes :
         /\ a \in despawns
         /\ slimes[a].size = 1
         /\ Len(slime_events) = 1
         /\ slime_events[1].size = 1

(***************************************************************************)
(* Properties of the Interaction Tracker.                                  *)
(***************************************************************************)
\* C1: at most one entity has Drag = true, whatever the press and release
\* edges (a press and a release in one tick included) and the order in which
\* drag_start, drag_end and mouse_hover run; stated for the states between
\* two ticks.
C1_AtMostOneDrag == pc = "idle" => Cardinality(drag) <= 1

\* C2: no entity has Drag = true and Hover = true at the same time, in any
\* order of the systems.
C2_DragExcludesHover == drag \cap hover = {}
\* mouse_hover has run with the pointer inside the radius of a dragged
\* entity and of another entity, which it hovers
C2_Witness ==
    /\ "mouse_hover" \in ran
    /\ mouse = "present"
    /\ \E d \in drag, h \in hover : d # h /\ {d, h} \subseteq near

\* the step in which mouse_hover runs
MouseHoverStep == "mouse_hover" \notin ran /\ "mouse_hover" \in ran'

\* C13: after the hover update of a tick in which the pointer is absent
\* (sync_mouse_position has found no cursor in this tick), no interactable
\* entity has Hover = true.
C13_NoHoverWhenAbsent ==
    (/\ phase = "InGame"
     /\ pc = "systems"
     /\ "mouse_hover" \in ran
     /\ first_pass => "sync_mouse_position" \in ran
     /\ mouse = "absent")
    => hover = {}

\* C14: after the hover update of a tick in which the pointer is present,
\* every interactable entity that is not dragged has Hover = true if and
\* only if the pointer is inside its activation radius, and every dragged
\* entity has Hover = false.
C14_Step ==
    (MouseHoverStep /\ mouse = "present")
    => /\ hover' \subseteq DOMAIN slimes' \cup DOMAIN spiders'
       /\ \A e \in DOMAIN slimes' \cup DOMAIN spiders' :
            IF e \in drag' THEN e \notin hover'
            ELSE e \in hover' <=> e \in near'
C14_HoverUpdate == [][C14_Step]_vars
\* mouse_hover has run with the pointer inside the radius of a dragged slime
\* and of a spider and outside the radius of another slime: of the three,
\* only the spider is hovered
C14_Witness ==
    /\ "mouse_hover" \in ran
    /\ mouse = "present"
    /\ \E d \in drag, sp \in DOMAIN spiders, sl \in DOMAIN slimes :
         /\ {d, sp} \subseteq near
         /\ sl \notin near
         /\ hover = {sp}

\* C22: on a pointer-press edge in InGame with the pointer present,
\* drag_start sets Drag and clears Hover on exactly one of the draggable
\* entities (the slimes) whose activation radius contains the pointer, and
\* leaves the flags of every other entity as they were; when the pointer is
\* inside no such radius, no flag changes.
DragStartStep == "drag_start" \notin ran /\ "drag_start" \in ran'
C22_Step ==
    (DragStartStep /\ just_pressed /\ phase = "InGame" /\ mouse = "present")
    => LET inside == {e \in DOMAIN slimes : e \in near}
       IN IF inside # {}
          THEN \E e \in inside :
                  /\ e \in drag' /\ e \notin hover'
                  /\ drag' \ {e} = drag \ {e}
                  /\ hover' \ {e} = hover \ {e}
          ELSE drag' = drag /\ hover' = hover
C22_PressEdge == [][C22_Step]_vars
\* drag_start has run on a press with the pointer inside the radii of two
\* slimes that were both hovered: one is dragged and no longer hovered, the
\* other is hovered and not dragged
C22_Witness ==
    /\ "drag_start" \in ran
    /\ "mouse_hover" \in ran
    /\ just_pressed
    /\ mouse = "present"
    /\ \E d \in DOMAIN slimes, o \in DOMAIN slimes :
         /\ d # o
         /\ {d, o} \subseteq near
         /\ drag = {d}
         /\ hover = {o}

\* C23: the drag update of an InGame tick with the pointer present puts
\* every entity with Drag = true at the pointer's position (its x and y are
\* set to the pointer's, and the pointer is then inside its activation
\* radius); with the pointer absent the drag update writes no position, and
\* in both cases it leaves the Drag flags as they are.
DragUpdateStep == "drag_update" \notin ran /\ "drag_update" \in ran'
C23_Step ==
    (DragUpdateStep /\ phase = "InGame")
    => /\ drag' = drag
       /\ IF mouse = "present"
          THEN \A e \in drag' : e \in snapped' /\ e \in near'
          ELSE snapped' = snapped /\ near' = near
C23_DragUpdate == [][C23_Step]_vars
\* drag_update has run with the pointer present and two slimes dragged:
\* both are at the pointer
C23_Witness ==
    /\ "drag_update" \in ran
    /\ phase = "InGame"
    /\ mouse = "present"
    /\ Cardinality(drag) = 2
    /\ snapped = drag
    /\ drag \subseteq near

\* the step in which drag_end runs, and the CombineEvents a step sends
DragEndStep == "drag_end" \notin ran /\ "drag_end" \in ran'
CombineSent ==
    SubSeq(combine_events', Len(combine_events) + 1, Len(combine_events'))
CombineOnlyAppends ==
    /\ Len(combine_events') >= Len(combine_events)
    /\ SubSeq(combine_events', 1, Len(combine_events)) = combine_events

\* C11: on every pointer-release edge in InGame, drag_end resets the Drag of
\* a dragged entity if there is one; it sends exactly one CombineRequest
\* when a dragged and a hovered entity exist, with that dragged entity as
\* addition and a hovered entity as base; it sends none when no entity is
\* dragged or none is hovered; never more than one.
C11_Step ==
    (DragEndStep /\ just_released /\ phase = "InGame")
    => /\ CombineOnlyAppends
       /\ Len(CombineSent) <= 1
       /\ drag' \subseteq drag
       /\ drag # {} => drag' # drag
       /\ (drag # {} /\ hover # {}) =>
             /\ Len(CombineSent) = 1
             /\ CombineSent[1].addition \in drag \ drag'
             /\ CombineSent[1].base \in hover
       /\ (drag = {} \/ hover = {}) => Len(CombineSent) = 0
C11_ReleaseEdge == [][C11_Step]_vars

\* C25: every CombineRequest has a base other than its addition: the entity
\* released is never its own merge target, whatever the order of
\* mouse_hover, drag_start and drag_end in a tick.
C25_BaseIsNotAddition ==
    \A i \in DOMAIN combine_events :
       combine_events[i].base # combine_events[i].addition
\* drag_end has sent a request in a tick with a press and a release, with
\* the pointer inside the radius of the entity released and of the base
C25_Witness ==
    /\ "drag_end" \in ran
    /\ just_pressed
    /\ just_released
    /\ combine_events # <<>>
    /\ LET ev == combine_events[Len(combine_events)]
       IN /\ ev.age = 0
          /\ {ev.base, ev.addition} \subseteq near
          /\ ev.base \in hover
          /\ ev.addition \notin drag

\* C26: a press or a release edge in InGame with the pointer absent causes
\* no failure: on the press drag_start starts no drag, on the release
\* drag_end resets the Drag of a dragged entity and sends no CombineRequest,
\* an entity with Hover = true from an earlier tick notwithstanding.
C26_Step ==
    /\ (DragStartStep /\ phase = "InGame" /\ just_pressed /\ mouse = "absent")
        => /\ panic' = "none"
           /\ drag' = drag
    /\ (DragEndStep /\ phase = "InGame" /\ just_released /\ mouse = "absent")
        => /\ panic' = "none"
           /\ combine_events' = combine_events
           /\ drag' \subseteq drag
           /\ drag # {} => drag' # drag
C26_AbsentPointerEdges == [][C26_Step]_vars

\* C27: a spider never has Drag = true and is never the addition of a
\* CombineRequest; a press with the pointer inside the activation radii of
\* spiders only starts no drag.
C27_Inv ==
    /\ drag \cap DOMAIN spiders = {}
    /\ \A i \in DOMAIN combine_events :
         combine_events[i].addition \notin DOMAIN spiders
C27_Step ==
    (/\ DragStartStep
     /\ just_pressed
     /\ mouse = "present"
     /\ near # {}
     /\ near \subseteq DOMAIN spiders)
    => drag' = drag /\ hover' = hover
C27_SpiderNeverDragged == []C27_Inv /\ [][C27_Step]_vars
\* drag_start has run on a press with the pointer inside the radius of a
\* spider and of no slime: nothing is dragged
C27_Witness ==
    /\ "drag_start" \in ran
    /\ phase = "InGame"
    /\ just_pressed
    /\ mouse = "present"
    /\ near # {}
    /\ near \subseteq DOMAIN spiders
    /\ slimes # <<>>
    /\ drag = {}

\* C15: a CombineRequest sent by drag_end in a tick is resolved by combine
\* within that tick, hence before the commands of the tick are applied and
\* a spider requested in the tick becomes an entity: when an InGame tick has
\* ended, no CombineRequest waits.
C15_ResolvedWithinTick ==
    (pc = "idle" /\ phase = "InGame") => combine_events = <<>>

(***************************************************************************)
(* Properties of the Game State Machine.                                   *)
(***************************************************************************)
\* C8: Phase starts as PreGame and changes only from PreGame to InGame (on
\* a pointer-press edge), from InGame to GameOver (only in a tick where some
\* spider is beyond the boundary) and from GameOver to InGame (on a
\* pointer-press edge); PreGame is never re-entered and nothing leads from
\* PreGame to GameOver.  A change is asked for with State::set and made by
\* the driver before the tick ends.
C8_Step ==
    /\ phase' # phase =>
          /\ <<phase, phase'>> \in {<<"PreGame", "InGame">>,
                                    <<"InGame", "GameOver">>,
                                    <<"GameOver", "InGame">>}
          /\ phase' = target
          /\ phase' = "InGame" => press_edge
    /\ (scheduled' # scheduled /\ scheduled' = "GameOver") =>
          /\ phase = "InGame"
          /\ \E e \in DOMAIN spiders : spiders[e].beyond
    /\ (scheduled' # scheduled /\ scheduled' = "InGame") =>
          /\ phase \in {"PreGame", "GameOver"}
          /\ press_edge
    /\ scheduled' # scheduled => scheduled' = "None" \/ scheduled = "None"
    /\ (scheduled' = "None" /\ scheduled # "None") => target' = scheduled
    /\ pc' = "idle" => scheduled' = "None" /\ phase' = target'
C8_PhaseTransitions == phase = "PreGame" /\ [][C8_Step]_vars
\* the driver has entered InGame from GameOver: a second game begins
C8_Witness ==
    /\ phase = "InGame"
    /\ transition = "Entering"
    /\ press_edge
    /\ next_entity > 1

\* C16: while Phase is PreGame or GameOver nothing of the in-game rule set
\* acts: no Drag or Hover flag changes (an entity that is destroyed takes
\* its flags with it), no CombineRequest is sent or resolved (a request may
\* expire), no spawn request is sent, no slime or spider is materialized,
\* the spawn timer does not advance and spiders_killed does not change.
C16_Step ==
    phase \in {"PreGame", "GameOver"}
    => /\ drag' = drag \cap (DOMAIN slimes' \cup DOMAIN spiders')
       /\ hover' = hover \cap (DOMAIN slimes' \cup DOMAIN spiders')
       /\ \/ combine_events' = combine_events
          \/ /\ pc = "idle"
             /\ Len(combine_events') <= Len(combine_events)
             /\ \A i \in DOMAIN combine_events' :
                  \E j \in DOMAIN combine_events :
                     /\ combine_events'[i].base = combine_events[j].base
                     /\ combine_events'[i].addition = combine_events[j].addition
       /\ Len(slime_events') <= Len(slime_events)
       /\ Len(spider_events') <= Len(spider_events)
       /\ spawns' = spawns
       /\ next_entity' = next_entity
       /\ DOMAIN slimes' \subseteq DOMAIN slimes
       /\ DOMAIN spiders' \subseteq DOMAIN spiders
       /\ timer' = timer
       /\ spiders_killed' = spiders_killed
C16_NoRulesOutsideInGame == [][C16_Step]_vars
\* restart_game_on_click has run in GameOver after a game with a spider
\* killed: the timer is part of the way, slimes are in the world and spawn
\* requests wait
C16_Witness ==
    /\ phase = "GameOver"
    /\ pc = "systems"
    /\ "restart_game_on_click" \in ran
    /\ spiders_killed = 1
    /\ timer # 0
    /\ slimes # <<>>
    /\ slime_events # <<>>

\* C7: an InGame tick with one or more spiders beyond the boundary (two or
\* more at once included) takes Phase to GameOver, once and without a
\* failure: when end_if_spider_reaches_garden has run in such a tick, the
\* change to GameOver is scheduled or made and the system has not failed.
C7_GameOverWithoutFailure ==
    (/\ phase = "InGame"
     /\ transition = "None"
     /\ "end_if_spider_reaches_garden" \in ran
     /\ \E e \in DOMAIN spiders : spiders[e].beyond)
    => /\ panic # "end_if_spider_reaches_garden"
       /\ scheduled = "GameOver"

\* C10: when a game begins, the first pass of its first tick finds the world
\* empty and nothing pending but the 16 spawn requests of the entry: no
\* entity, no spawn request and no combine request of the game before.
NewGameBegins ==
    /\ phase = "InGame"
    /\ transition = "None"
    /\ pc = "systems"
    /\ ran \subseteq {"sync_mouse_position"}
    /\ Len(slime_events) >= 16
    /\ \A i \in 1..16 :
         /\ slime_events[Len(slime_events) - 16 + i].size = 1
         /\ slime_events[Len(slime_events) - 16 + i].age = 0
C10_NothingCarriesOver ==
    NewGameBegins =>
        /\ slimes = <<>>
        /\ spiders = <<>>
        /\ Len(slime_events) = 16
        /\ spider_events = <<>>
        /\ combine_events = <<>>

\* C9: every entry into InGame sends exactly 16 slime spawn requests, 2 of
\* size 1 for each of the 8 colours, sets spiders_killed to 0 and replaces
\* the spawn timer by one with zero elapsed time.
EntryPass == transition = "Entering" /\ target = "InGame" /\ pc = "systems"
C9_Step ==
    /\ (EntryPass /\ slime_events' # slime_events) =>
          /\ OnlyAppends
          /\ Len(Emitted) = 16
          /\ \A c \in {"Red", "Green", "Blue", "Cyan", "Purple", "Yellow",
                         "Black", "White"} :
               Cardinality({i \in 1..Len(Emitted) : Emitted[i] = <<c, 1>>}) = 2
          /\ "spawn_initial_slimes" \notin ran
    /\ (EntryPass /\ ApplyStep) =>
          /\ "spawn_initial_slimes" \in ran
          /\ spiders_killed' = 0
          /\ timer' = 0
C9_EntryIntoInGame == [][C9_Step]_vars
\* the three entry systems have run at the start of a second game, after a
\* game with a spider killed and a timer that had run: the pass is about to
\* end
C9_Witness ==
    /\ EntryPass
    /\ ran = {"spawn_initial_slimes", "setup_spider_spawn_timer", "reset_score"}
    /\ spiders_killed = 1
    /\ timer # 0
    /\ Len(slime_events) >= 16

\* C19: every spider that is requested or materialized has a level in
\* [1,4], a weakness that is one of the 8 slime colours, and speed 60: the
\* spawn requests in the queue, the spawn commands of the Spawn Director and
\* the spiders of the world.
C19_SpiderAttributes ==
    /\ \A i \in DOMAIN spider_events :
         /\ spider_events[i].level >= 1 /\ spider_events[i].level <= 4
         /\ spider_events[i].weakness \in {"Red", "Green", "Blue", "Cyan",
                                           "Purple", "Yellow", "Black", "White"}
         /\ spider_events[i].speed = 60
    /\ \A e \in DOMAIN spawns :
         spawns[e].kind = "spider" =>
             /\ spawns[e].level >= 1 /\ spawns[e].level <= 4
             /\ spawns[e].weakness \in {"Red", "Green", "Blue", "Cyan",
                                         "Purple", "Yellow", "Black", "White"}
             /\ spawns[e].speed = 60
    /\ \A e \in DOMAIN spiders :
         /\ spiders[e].level >= 1 /\ spiders[e].level <= 4
         /\ spiders[e].weakness \in {"Red", "Green", "Blue", "Cyan",
                                      "Purple", "Yellow", "Black", "White"}
         /\ spiders[e].speed = 60
\* a spider of the highest level, whose weakness is the first colour, is in
\* the world
C19_Witness ==
    \E e \in DOMAIN spiders :
       /\ spiders[e].level = 4
       /\ spiders[e].weakness = "Red"
       /\ spiders[e].speed = 60

\* C17: after each entry into InGame no spider spawn request is sent before
\* 5 time units of in-game time have elapsed since the entry, each elapse of
\* the period sends exactly one request, and time that elapsed before the
\* entry does not count.  The timer is the in-game time since the entry or
\* the last request: it is 0 at the entry (C9) and still 0 after the tick of
\* the entry, whose frame elapsed before the entry; in a later tick it grows
\* by the length of the frame, and a request, exactly one, is sent when it
\* reaches the period; nothing else changes it or sends a request.
SpawnTimerStep ==
    "spider_spawn_timer" \notin ran /\ "spider_spawn_timer" \in ran'
\* the update pass that follows the entry passes within one frame
EntryTick ==
    phase = "InGame" /\ transition = "None" /\ pc = "systems" /\ ~first_pass
SpiderSent == Len(spider_events') - Len(spider_events)
C17_Step ==
    /\ (SpawnTimerStep /\ EntryTick) =>
          /\ SpiderSent = 0
          /\ timer' = 0
    /\ (SpawnTimerStep /\ ~EntryTick) =>
          /\ SpiderSent = (IF timer + delta >= 5 THEN 1 ELSE 0)
          /\ timer' = (timer + delta) % 5
    /\ (~SpawnTimerStep /\ pc # "idle") =>
          /\ SpiderSent <= 0
          /\ timer' # timer => (EntryPass /\ timer' = 0)
C17_SpawnTimer == [][C17_Step]_vars

(***************************************************************************)
(* Properties of a whole game.                                             *)
(***************************************************************************)
\* C21: spiders_killed is 0 right after every entry into InGame and from
\* then on counts the spiders destroyed by combat resolution since that
\* entry: the entry pass ends with the score at 0, a run of combine adds to
\* the score the number of distinct spiders it destroys (one for each +1),
\* and nothing else changes the score.
C21_Step ==
    /\ (EntryPass /\ ApplyStep) => spiders_killed' = 0
    /\ CombineStep =>
          spiders_killed' - spiders_killed
            = Cardinality((despawns' \ despawns) \cap DOMAIN spiders)
    /\ (~CombineStep /\ spiders_killed' # spiders_killed) =>
          (EntryPass /\ ApplyStep)
C21_ScoreCountsSpiders == [][C21_Step]_vars

\* the sizes of the living slimes among the entities 1 to n, of the slimes
\* among the spawn commands 1 to n, and of the requests of q
RECURSIVE LivingSizes(_)
LivingSizes(n) ==
    IF n = 0 THEN 0
    ELSE (IF n \in DOMAIN slimes /\ n \notin despawns
          THEN slimes[n].size ELSE 0)
         + LivingSizes(n - 1)
RECURSIVE SpawnSizes(_)
SpawnSizes(n) ==
    IF n = 0 THEN 0
    ELSE (IF n \in DOMAIN spawns /\ spawns[n].kind = "slime"
          THEN spawns[n].size ELSE 0)
         + SpawnSizes(n - 1)
RECURSIVE SizesIn(_)
SizesIn(q) == IF q = <<>> THEN 0 ELSE Head(q).size + SizesIn(Tail(q))
\* The total of slime sizes: the living slimes (those not queued for
\* destruction), the spawn requests that wait and the spawn commands of the
\* Spawn Director.
SlimeTotal ==
    LivingSizes(next_entity - 1)
    + SizesIn(slime_events)
    + (IF spawns = <<>> THEN 0 ELSE SpawnSizes(next_entity - 1))
\* the requests of the batch that merge two slimes beyond the maximum size
OverflowMerges ==
    Cardinality({i \in DOMAIN combine_events :
        /\ combine_events[i].base \in DOMAIN slimes
        /\ combine_events[i].addition \in DOMAIN slimes
        /\ slimes[combine_events[i].base].size
             + slimes[combine_events[i].addition].size > 5})

\* C28: within a game the total of slime sizes never decreases: a merge
\* without overflow and a spider combat leave it as it is, a merge of sizes
\* a and b with overflow makes pieces that sum to a + b + 1, and nothing but
\* combine changes it.
C28_Step ==
    (phase = "InGame" /\ transition = "None" /\ phase' = "InGame")
    => /\ SlimeTotal' >= SlimeTotal
       /\ SlimeTotal' = SlimeTotal + (IF CombineStep THEN OverflowMerges ELSE 0)
C28_SlimeTotal == [][C28_Step]_vars
\* the part of it that holds whatever a batch contains: the total never
\* decreases
TotalStep ==
    (phase = "InGame" /\ transition = "None" /\ phase' = "InGame")
    => SlimeTotal' >= SlimeTotal
TotalNeverDecreases == [][TotalStep]_vars

\* The number of slimes: the living ones (not queued for destruction), the
\* spawn requests that wait and the spawn commands of the Spawn Director.
SlimeCount ==
    Cardinality(DOMAIN slimes \ despawns)
    + Len(slime_events)
    + Cardinality({e \in DOMAIN spawns : spawns[e].kind = "slime"})
\* the ticks of a game, and the time from its end to the exit from GameOver
GameOn == phase = "InGame" /\ transition = "None"
GameEnded ==
    \/ phase = "InGame" /\ transition = "Exiting"
    \/ phase = "GameOver" /\ transition \in {"Entering", "None"}

SpiderBeyond == \E e \in DOMAIN spiders : spiders[e].beyond
C30_SpidersEndTheGame == SpiderBeyond ~> (phase = "GameOver")

=============================================================================
